---- MODULE Spec2Model ----
(***************************************************************************)
(* Model of the recruiter agent: its tools and its MCP invocation layer.    *)
(*                                                                         *)
(*   hr_agent.py        discover_and_invoke_tool: one stdio session per    *)
(*                      invocation, process-wide tool cache                *)
(*                      match_resumes: the resumes read, the ranking tool   *)
(*                      invoked once with all of them                      *)
(*                      generate_report: the records sorted and written    *)
(*   test_mcp_http.py   send_jsonrpc and the handshake / discovery / call  *)
(*                      sequence of test_mcp_http_connection               *)
(*                                                                         *)
(* Texts (HTTP bodies, SSE lines, tool-result texts) are sequences of      *)
(* symbols: single characters where the code looks at characters (the      *)
(* 'data: ' prefix, the line feed) and lexical JSON tokens elsewhere.      *)
(***************************************************************************)
EXTENDS Integers, Sequences, FiniteSets, TLC

\* ------------------------------------------------------------------ bounds
\* most lines in one event-stream body handed to send_jsonrpc's decoding
MaxLines == 2
\* most lines in one event-stream body during test_mcp_http_connection
MaxFlowLines == 1
\* most tool invocations in one process lifetime
MaxInvocations == 3
\* most content items in one tools/call result
MaxItems == 3
\* callers (coroutines) that may invoke tools in one process
NumCallers == 2
\* most entries in the resumes folder
MaxFiles == 3
\* most entries in the rankings of one result
MaxRecords == 4

\* ------------------------------------------------------- Python / JSON values
\* A Python value as json.loads produces it. One record shape for all types:
\*   t     the type ("None", "int", "str", "list", "dict")
\*   n     the number of an int
\*   s     the characters of a str
\*   len   the length of a list
\*   keys  the keys of a dict
\*   tools the tool names under result.tools of a dict
PyVal(t, n, s, len, keys, tools) ==
    [t |-> t, n |-> n, s |-> s, len |-> len, keys |-> keys, tools |-> tools]

PyNone == PyVal("None", 0, "", 0, {}, <<>>)

PyInt(n) == PyVal("int", n, "", 0, {}, <<>>)

PyStr(s) == PyVal("str", 0, s, 0, {}, <<>>)

PyList(len) == PyVal("list", 0, "", len, {}, <<>>)

PyDict(keys, tools) == PyVal("dict", 0, "", 0, keys, tools)

\* Python truthiness: bool(v)
Truthy(v) ==
    CASE v.t = "None" -> FALSE
      [] v.t = "int"  -> v.n # 0
      [] v.t = "str"  -> v.s # ""
      [] v.t = "list" -> v.len > 0
      [] v.t = "dict" -> v.keys # {}

\* Tool names the servers of the model may declare; the first two are the
\* constants MCP_TOOL_RANK_RESUMES and MCP_TOOL_FETCH_JOB_DESC.
MCP_TOOL_RANK_RESUMES == "rank_resumes_mcp"

MCP_TOOL_FETCH_JOB_DESC == "fetch_job_description_mcp"

ANALYZE_TOOL == "analyze_resume_mcp"

\* ------------------------------------------------------------------ texts
LF == "\n"

T_EmptyObj == <<"{", "}">>

T_Five == <<"5">>

T_List == <<"[", "1", "]">>

T_Garbage == <<"{", "oops">>

T_ErrorStr == <<"'error'">>

\* {"jsonrpc":"2.0","id":1,"result":{}}
T_Result == <<"{", "'jsonrpc'", ":", "'2.0'", ",", "'id'", ":", "1", ",",
              "'result'", ":", "{", "}", "}">>

\* {"jsonrpc":"2.0","id":1,"result":{"tools":[{"name":"rank_resumes_mcp"}]}}
T_Tools == <<"{", "'jsonrpc'", ":", "'2.0'", ",", "'id'", ":", "1", ",",
             "'result'", ":", "{", "'tools'", ":", "[", "{", "'name'", ":",
             "'rank_resumes_mcp'", "}", "]", "}", "}">>

\* {"jsonrpc":"2.0","id":1,"error":{"code":-32601,"message":"x"}}
T_Error == <<"{", "'jsonrpc'", ":", "'2.0'", ",", "'id'", ":", "1", ",",
             "'error'", ":", "{", "'code'", ":", "-32601", ",", "'message'",
             ":", "'x'", "}", "}">>

\* {"rankings":[{"resumeFilename":"1.txt","score":90,"rank":1}]}
T_Rankings == <<"{", "'rankings'", ":", "[", "{", "'resumeFilename'", ":",
                "'1.txt'", ",", "'score'", ":", "90", ",", "'rank'", ":", "1",
                "}", "]", "}">>

\* The JSON-RPC response envelopes among the texts
EnvelopeTexts == {T_Result, T_Tools, T_Error}

\* The JSON texts a server may put in a body, a frame or a content item
Payloads == {T_EmptyObj, T_Five, T_List, T_Garbage, T_ErrorStr}
            \cup EnvelopeTexts

\* json.loads(text): the value, or a failure (ValueError) for a text that is
\* no JSON document. ok = FALSE stands for the raised JSONDecodeError.
json_loads(text) ==
    CASE text = T_EmptyObj -> [ok |-> TRUE, v |-> PyDict({}, <<>>)]
      [] text = T_Five     -> [ok |-> TRUE, v |-> PyInt(5)]
      [] text = T_List     -> [ok |-> TRUE, v |-> PyList(1)]
      [] text = T_ErrorStr -> [ok |-> TRUE, v |-> PyStr("error")]
      [] text = T_Result   ->
            [ok |-> TRUE, v |-> PyDict({"jsonrpc", "id", "result"}, <<>>)]
      [] text = T_Tools    ->
            [ok |-> TRUE,
             v |-> PyDict({"jsonrpc", "id", "result"}, <<MCP_TOOL_RANK_RESUMES>>)]
      [] text = T_Error    ->
            [ok |-> TRUE, v |-> PyDict({"jsonrpc", "id", "error"}, <<>>)]
      [] text = T_Rankings ->
            [ok |-> TRUE, v |-> PyDict({"rankings"}, <<>>)]
      [] OTHER             -> [ok |-> FALSE, v |-> PyNone]

\* ------------------------------------------------ send_jsonrpc: the response
DataPrefix == <<"d", "a", "t", "a", ":", " ">>

\* line.startswith('data: ')
StartsWithData(line) ==
    /\ Len(line) >= Len(DataPrefix)
    /\ SubSeq(line, 1, Len(DataPrefix)) = DataPrefix

\* Faulty variant: line[7:]
SseDataOf_OffByOne(line) == SubSeq(line, 8, Len(line))

\* line[6:]
SseDataOf(line) == SubSeq(line, 7, Len(line))

\* text.split('\n'): the lines of a text, the empty ones included
RECURSIVE SplitFrom(_, _, _)
SplitFrom(text, i, cur) ==
    IF i > Len(text) THEN <<cur>>
    ELSE IF text[i] = LF THEN <<cur>> \o SplitFrom(text, i + 1, <<>>)
    ELSE SplitFrom(text, i + 1, Append(cur, text[i]))

SplitLines(text) == SplitFrom(text, 1, <<>>)

\* The loop over the lines of an event-stream body: result starts as None,
\* the first 'data: ' line whose data json.loads accepts sets it and breaks,
\* a line json.loads rejects is skipped (except: continue).
RECURSIVE SseScan(_, _)
SseScan(lines, i) ==
    IF i > Len(lines) THEN PyNone
    ELSE IF StartsWithData(lines[i]) /\ json_loads(SseDataOf(lines[i])).ok
         THEN json_loads(SseDataOf(lines[i])).v
         ELSE SseScan(lines, i + 1)

SseResult(body) == SseScan(SplitLines(body), 1)

\* 'text/event-stream' in content_type
IsEventStream(content_type) ==
    content_type \in {"text/event-stream", "text/event-stream; charset=utf-8"}

\* What send_jsonrpc returns or raises, as [raised, value, log]:
\*   raised  an exception leaves send_jsonrpc
\*   value   the returned value (PyNone for return None)
\*   log     the error line logged on the way, "" if none
Returned(v) == [raised |-> FALSE, value |-> v, log |-> ""]

ReturnedNone(log) == [raised |-> FALSE, value |-> PyNone, log |-> log]

Raised(what) == [raised |-> TRUE, value |-> PyNone, log |-> what]

\* Faulty variant: the error member is not looked for: whatever was decoded is
\* returned
ErrorCheck_Unchecked(result) == Returned(result)

\* if 'error' in result: logger.error(f"MCP error: {result['error']}");
\*                       return None
\* return result
\* ('in' on an int or None raises TypeError; on a str it is a substring test,
\* and result['error'] on a str then raises TypeError; on a list, membership;
\* on a dict, key membership)
ErrorCheck(result) ==
    CASE result.t = "int"  -> Raised("TypeError")
      [] result.t = "None" -> Raised("TypeError")
      [] result.t = "str"  ->
            IF result.s = "error" THEN Raised("TypeError")
            ELSE Returned(result)
      [] result.t = "list" -> Returned(result)
      [] result.t = "dict" ->
            IF "error" \in result.keys THEN ReturnedNone("MCP error")
            ELSE Returned(result)

\* The event-stream branch: if not result: log, return None
SseBranch(body) ==
    LET result == SseResult(body)
    IN IF ~Truthy(result)
       THEN ReturnedNone("No valid JSON data in SSE stream")
       ELSE ErrorCheck(result)

\* The other branch: result = response.json()
JsonBranch(body) ==
    IF json_loads(body).ok THEN ErrorCheck(json_loads(body).v)
    ELSE Raised("JSONDecodeError")

\* send_jsonrpc from the status check on
ProcessResponse(resp) ==
    IF resp.status # 200 THEN ReturnedNone("Error")
    ELSE IF IsEventStream(resp.content_type) THEN SseBranch(resp.body)
    ELSE JsonBranch(resp.body)

\* ------------------------------------------------- what a server may answer
\* No header / no token / no id
None == "None"

\* the mcp-session-id header of a response: absent, present with an empty
\* value, or present with a token
SessionHeaders == {None, "", "s1", "s2"}

ContentTypes == {"application/json", "text/event-stream"}

StatusCodes == {200, 500}

DataLine(p) == DataPrefix \o p

\* The lines an event stream may hold: a data frame per payload, an event
\* line, and a frame whose colon is not followed by a space
SseLines ==
    {DataLine(p) : p \in Payloads}
    \cup {<<"e", "v", "e", "n", "t", ":", " ", "message">>,
          <<"d", "a", "t", "a", ":">> \o T_Result}

RECURSIVE LineSeqs(_)
LineSeqs(n) ==
    IF n = 0 THEN {<<>>}
    ELSE LineSeqs(n - 1)
         \cup {Append(ls, l) : ls \in LineSeqs(n - 1), l \in SseLines}

\* Each line ended by a line feed, the stream ended by an empty line
RECURSIVE JoinLines(_)
JoinLines(ls) ==
    IF ls = <<>> THEN <<LF>>
    ELSE Head(ls) \o <<LF>> \o JoinLines(Tail(ls))

SseBodies(n) == {JoinLines(ls) : ls \in LineSeqs(n)}

Bodies(n) == Payloads \cup SseBodies(n)

\* A reply to one POST: a response, or none (client.post raised)
Response(status, header, ctype, body) ==
    [arrived |-> TRUE, status |-> status, session_header |-> header,
     content_type |-> ctype, body |-> body]

NoReply ==
    [arrived |-> FALSE, status |-> 0, session_header |-> None,
     content_type |-> "", body |-> <<>>]

ResponsesOf(bodies) ==
    {Response(st, h, ct, b) :
        st \in StatusCodes, h \in SessionHeaders, ct \in ContentTypes,
        b \in bodies}

\* The responses send_jsonrpc's decoding is checked on
Responses == ResponsesOf(Bodies(MaxLines))

\* A response with status 200, whose body send_jsonrpc goes on to decode
IsOk(resp) == resp.status = 200

\* The responses with another status: send_jsonrpc logs response.text and
\* returns None, whatever the body and the content type, so one body stands
\* for all; the session header is read before the status and is kept
ErrorResponses == {resp \in ResponsesOf({T_Garbage}) : ~IsOk(resp)}

\* The replies to a POST of test_mcp_http_connection
Replies ==
    {resp \in ResponsesOf(Bodies(MaxFlowLines)) : IsOk(resp)}
    \cup ErrorResponses \cup {NoReply}

\* ------------------------------------------------------------------- state
VARIABLES
    program,          \* which entry point runs: "hr_agent" or "test_mcp_http"
    \* test_mcp_http.py
    hpc,              \* where test_mcp_http_connection stands
    message_id,       \* message_id[0]
    session_id,       \* session_id[0]
    trace,            \* the requests posted and the responses received, in order
    last,             \* what the latest send_jsonrpc returned or raised
    init_result,      \* init_result of test_mcp_http_connection
    tool_names,       \* tool_names of test_mcp_http_connection
    test_result,      \* what test_mcp_http_connection returned
    \* send_jsonrpc on one response
    response,         \* the response handed to send_jsonrpc's decoding
    decoded,          \* what send_jsonrpc made of it
    \* hr_agent.py
    _mcp_tools_cache, \* the module's tool cache: None, or a list of tools
    server_tools,     \* the tools the MCP server declares at this moment
    pc,               \* per caller: where its discover_and_invoke_tool stands
    tool_name,        \* per caller: the tool_name argument
    proc,             \* per caller: the server process of its invocation
    wire,             \* per caller: the requests sent on its session
    init,             \* per caller: how session.initialize() ended
    seen,             \* per caller: the cache as its tool lookup read it
    leaving,          \* per caller: what it is leaving the async with blocks with
    outcome,          \* per caller: what the invocation returned or raised
    kwargs,           \* per caller: the **kwargs of the invocation
    invocations,      \* invocations started in this process
    discoveries,      \* the discovery steps completed, in order
    listed,           \* the tool lists tools/list has returned
    cache_writes,     \* assignments to _mcp_tools_cache
    failed_lists,     \* tools/list round-trips that failed
    \* hr_agent.py: match_resumes
    job_description,  \* the job_description_content argument
    resumes_dir,      \* the entries of RESUMES_FOLDER, as os.listdir gives them
    mpc,              \* where match_resumes stands
    resume_texts,     \* resume_texts of match_resumes
    resume_filenames, \* resume_filenames of match_resumes
    skipped,          \* the paths of the "Skipping ..." warnings, in order
    match_result,     \* what match_resumes returned or raised
    \* hr_agent.py: generate_report
    rpc,              \* how far the rankings have got on their way to the report
    rankings,         \* result["rankings"] as the ranking tool returned it
    analysis_data,    \* the records match_resumes returns
    sorted_data,      \* sorted_data of generate_report
    report,           \* what generate_report wrote
    \* hr_agent.py: the result parsing of discover_and_invoke_tool
    result_content,   \* result.content of one tools/call result
    parsed            \* what the parsing returned or raised

httpVars ==
    <<hpc, message_id, session_id, trace, last, init_result, tool_names,
      test_result>>

sseVars == <<response, decoded>>

callerVars ==
    <<pc, tool_name, proc, wire, init, seen, leaving, outcome, kwargs>>

cacheVars ==
    <<_mcp_tools_cache, server_tools, invocations, discoveries, listed,
      cache_writes, failed_lists>>

agentVars == <<callerVars, cacheVars>>

matchVars ==
    <<job_description, resumes_dir, mpc, resume_texts, resume_filenames,
      skipped, match_result>>

reportVars == <<rpc, rankings, analysis_data, sorted_data, report>>

parseVars == <<result_content, parsed>>

toolVars == <<matchVars, reportVars, parseVars>>

\* ------------------------------------------------- send_jsonrpc: the request
\* msg = {"jsonrpc": "2.0", "method": method}, with "id" unless a notification
BuildMsg(method, is_notification, mid) ==
    [method |-> method, has_id |-> ~is_notification,
     id |-> IF is_notification THEN 0 ELSE mid]

\* Faulty variant: a notification takes an id too
NextMessageId_Always(mid, is_notification) == mid + 1

\* message_id[0] += 1, for a message that is no notification
NextMessageId(mid, is_notification) ==
    IF is_notification THEN mid ELSE mid + 1

\* Faulty variant: every response that carries the header replaces the token
CaptureSession_Latest(sid, header) == IF header # None THEN header ELSE sid

\* Faulty variant: the stored session id is not attached to requests
RequestSession_Never(sid) == None

\* if session_id[0]: headers["mcp-session-id"] = session_id[0]
RequestSession(sid) == IF sid # None /\ sid # "" THEN sid ELSE None

\* if not session_id[0] and 'mcp-session-id' in response.headers
CaptureSession(sid, header) ==
    IF (sid = None \/ sid = "") /\ header # None THEN header ELSE sid

Request(msg, sid) ==
    [dir |-> "request", method |-> msg.method, has_id |-> msg.has_id,
     id |-> msg.id, session |-> RequestSession(sid), status |-> 0]

Received(reply) ==
    [dir |-> "response", method |-> "", has_id |-> FALSE, id |-> 0,
     session |-> reply.session_header, status |-> reply.status]

\* What one send_jsonrpc returns or raises for a reply
SendOutcome(reply) ==
    IF reply.arrived THEN ProcessResponse(reply) ELSE Raised("TransportError")

\* One send_jsonrpc(method, params, is_notification) answered by reply:
\* everything it does to the session
send_jsonrpc(method, is_notification, reply) ==
    /\ message_id' = NextMessageId(message_id, is_notification)
    /\ trace' =
         LET posted ==
               Append(trace,
                      Request(BuildMsg(method, is_notification, message_id),
                              session_id))
         IN IF reply.arrived THEN Append(posted, Received(reply)) ELSE posted
    /\ session_id' =
         IF reply.arrived THEN CaptureSession(session_id, reply.session_header)
         ELSE session_id
    /\ last' = SendOutcome(reply)

\* ------------------------------------------- test_mcp_http_connection's steps
KnownTools == <<MCP_TOOL_RANK_RESUMES, MCP_TOOL_FETCH_JOB_DESC, ANALYZE_TOOL>>

InSeq(x, seq) == \E i \in 1..Len(seq) : seq[i] = x

\* Faulty variant: only an exception stops the test, not an empty init_result
InitFailed_RaisedOnly(result) == result.raised

\* if not init_result (or send_jsonrpc raised, which the outer except catches)
InitFailed(result) == result.raised \/ ~Truthy(result.value)

\* init_result = await send_jsonrpc("initialize", {...});
\* if not init_result: return False   (an exception: the outer except, False)
HttpInitialize(reply) ==
    /\ program = "test_mcp_http"
    /\ hpc = "initialize"
    /\ send_jsonrpc("initialize", FALSE, reply)
    /\ init_result' = last'
    /\ IF InitFailed(init_result')
       THEN hpc' = "done" /\ test_result' = "False"
       ELSE hpc' = "notify" /\ test_result' = test_result
    /\ UNCHANGED <<program, tool_names, sseVars, agentVars, toolVars>>

\* Faulty variant: a notification that fails ends the test
HttpNotifyInitialized_Abort(reply) ==
    /\ program = "test_mcp_http"
    /\ hpc = "notify"
    /\ send_jsonrpc("notifications/initialized", TRUE, reply)
    /\ IF last'.raised \/ last'.value = PyNone
       THEN hpc' = "done" /\ test_result' = "False"
       ELSE hpc' = "list" /\ test_result' = test_result
    /\ UNCHANGED <<program, init_result, tool_names, sseVars, agentVars,
                   toolVars>>

\* try: await send_jsonrpc("notifications/initialized", {}, True)
\* except Exception: logged
HttpNotifyInitialized(reply) ==
    /\ program = "test_mcp_http"
    /\ hpc = "notify"
    /\ send_jsonrpc("notifications/initialized", TRUE, reply)
    /\ hpc' = "list"
    /\ UNCHANGED <<program, init_result, tool_names, test_result, sseVars,
                   agentVars, toolVars>>

\* tools = tools_result.get('result', {}).get('tools', []), names of them;
\* no result, or any exception: the known tools
ToolNamesOf(tools_result) ==
    IF ~tools_result.raised /\ tools_result.value.t = "dict"
       /\ Truthy(tools_result.value)
    THEN tools_result.value.tools
    ELSE KnownTools

\* tools/list, then: if 'rank_resumes_mcp' in tool_names: the call; return True
HttpListTools(reply) ==
    /\ program = "test_mcp_http"
    /\ hpc = "list"
    /\ send_jsonrpc("tools/list", FALSE, reply)
    /\ tool_names' = ToolNamesOf(last')
    /\ IF InSeq(MCP_TOOL_RANK_RESUMES, tool_names')
       THEN hpc' = "call" /\ test_result' = test_result
       ELSE hpc' = "done" /\ test_result' = "True"
    /\ UNCHANGED <<program, init_result, sseVars, agentVars, toolVars>>

\* if not invoke_result: return False; invoke_result.get('result', {}) (an
\* exception, of send_jsonrpc or of .get on no dict: the outer except, False)
CallFailedTest(invoke_result) ==
    \/ invoke_result.raised
    \/ ~Truthy(invoke_result.value)
    \/ invoke_result.value.t # "dict"

\* invoke_result = await send_jsonrpc("tools/call", {...}); return True
HttpCallTool(reply) ==
    /\ program = "test_mcp_http"
    /\ hpc = "call"
    /\ send_jsonrpc("tools/call", FALSE, reply)
    /\ hpc' = "done"
    /\ test_result' = IF CallFailedTest(last') THEN "False" ELSE "True"
    /\ UNCHANGED <<program, init_result, tool_names, sseVars, agentVars,
                   toolVars>>

\* send_jsonrpc's decoding applied to the response at hand
DecodeResponse ==
    /\ decoded = Raised("pending")
    /\ decoded' = ProcessResponse(response)
    /\ UNCHANGED <<program, httpVars, response, agentVars, toolVars>>

\* ------------------------------------------- hr_agent.py: the tool invoker
Callers == 1..NumCallers

\* The tool lists a server may declare
Catalogs ==
    {<<MCP_TOOL_RANK_RESUMES, MCP_TOOL_FETCH_JOB_DESC>>,
     <<MCP_TOOL_RANK_RESUMES>>,
     <<>>}

\* The tools hr_agent.py invokes (match_resumes, get_job_description_content)
InvokedTools == {MCP_TOOL_RANK_RESUMES, MCP_TOOL_FETCH_JOB_DESC}

\* Optional[List[Any]]: None, or a list
NoCache == [some |-> FALSE, tools |-> <<>>]

CacheOf(tools) == [some |-> TRUE, tools |-> tools]

\* Faulty variant: the cache is never consulted: every invocation lists the tools
NeedsDiscovery_Always(cache) == TRUE

\* if _mcp_tools_cache is None
NeedsDiscovery(cache) == ~cache.some

\* Faulty variant: the first descriptor of the list is lost on the way to the cache
StoreCatalog_Partial(tools) ==
    CacheOf(IF tools = <<>> THEN tools ELSE Tail(tools))

\* _mcp_tools_cache = tools_list.tools
StoreCatalog(tools) == CacheOf(tools)

\* Faulty variant: the lookup result is not checked
FindTool_Any(catalog, name) == TRUE

\* next((t for t in _mcp_tools_cache if t.name == tool_name), None), as found
FindTool(catalog, name) == InSeq(name, catalog)

\* The keyword arguments of an invocation the model does not look into
NoKwargs ==
    [job_description |-> "", resume_texts |-> <<>>, resume_filenames |-> <<>>]

\* A request on the stdio session; arguments: those of a tools/call
Msg(method, name) ==
    [method |-> method, name |-> name, arguments |-> NoKwargs]

\* session.call_tool(tool_name, kwargs)
CallMsg(name, arguments) ==
    [method |-> "tools/call", name |-> name, arguments |-> arguments]

\* What discover_and_invoke_tool returns or raises
Ok(v) == [kind |-> "ok", error |-> "", value |-> v, tool |-> "", available |-> <<>>]

Fail(error) ==
    [kind |-> "raise", error |-> error, value |-> PyNone, tool |-> "",
     available |-> <<>>]

\* ValueError(f"Tool '{tool_name}' not found on MCP server. Available: [...]")
ToolNotFound(name, catalog) ==
    [kind |-> "raise", error |-> "ToolNotFound", value |-> PyNone,
     tool |-> name, available |-> catalog]

NoOutcome ==
    [kind |-> "none", error |-> "", value |-> PyNone, tool |-> "",
     available |-> <<>>]

\* A content item of a tools/call result: with a text attribute or without
TextItem(text) == [has_text |-> TRUE, text |-> text]

OtherItem == [has_text |-> FALSE, text |-> <<>>]

\* The texts a tool may put in a content item: an object, a number, no JSON,
\* the rankings of one resume
ResultTexts == {T_EmptyObj, T_Five, T_Garbage, T_Rankings}

Items == {OtherItem} \cup {TextItem(p) : p \in ResultTexts}

RECURSIVE ContentsUpTo(_)
ContentsUpTo(n) ==
    IF n = 0 THEN {<<>>}
    ELSE ContentsUpTo(n - 1)
         \cup {Append(cs, it) : cs \in ContentsUpTo(n - 1), it \in Items}

\* What session.call_tool may come back with: a result, or an exception
CallResult(content) == [failed |-> FALSE, content |-> content]

CallFailed == [failed |-> TRUE, content |-> <<>>]

CallReplies == {CallResult(cs) : cs \in ContentsUpTo(MaxItems)} \cup {CallFailed}

\* Faulty variant: a text that does not decode is passed over and the next item
\* tried
RECURSIVE ParseContent_SkipUndecodable(_, _)
ParseContent_SkipUndecodable(content, i) ==
    IF i > Len(content) THEN Ok(PyDict({}, <<>>))
    ELSE IF content[i].has_text /\ json_loads(content[i].text).ok
         THEN Ok(json_loads(content[i].text).v)
         ELSE ParseContent_SkipUndecodable(content, i + 1)

\* if result.content: for content_item in result.content:
\*     if hasattr(content_item, 'text'): return json.loads(content_item.text)
\* logger.warning(...); return {}
RECURSIVE ParseContent(_, _)
ParseContent(content, i) ==
    IF i > Len(content) THEN Ok(PyDict({}, <<>>))
    ELSE IF content[i].has_text
         THEN IF json_loads(content[i].text).ok
              THEN Ok(json_loads(content[i].text).v)
              ELSE Fail("JSONDecodeError")
         ELSE ParseContent(content, i + 1)

\* Leaving the two async with blocks: the session is closed and the server
\* process ended, if one was started
ProcAfterExit(p) == IF p = "alive" THEN "terminated" ELSE p

\* A return or a raise inside the async with blocks: the exits of the two
\* blocks are awaited (the session is closed, the server process ended)
\* before control is back with the caller
EnterExits(c, out) ==
    /\ pc' = [pc EXCEPT ![c] = "exiting"]
    /\ leaving' = [leaving EXCEPT ![c] = out]

\* Faulty variant: the process is ended at the end of the block only: an exception
\* leaves it running
ExitWith_Leak(c, out) ==
    /\ pc' = [pc EXCEPT ![c] = IF out.kind = "ok" THEN "returned" ELSE "raised"]
    /\ proc' = [proc EXCEPT ![c] =
                  IF out.kind = "ok" THEN ProcAfterExit(proc[c]) ELSE proc[c]]
    /\ outcome' = [outcome EXCEPT ![c] = out]

\* The exits of the async with blocks are through (or no block was entered):
\* the server process, if one was started, is ended, and control goes back to
\* the caller with out (the except clause logs and re-raises)
ExitWith(c, out) ==
    /\ pc' = [pc EXCEPT ![c] = IF out.kind = "ok" THEN "returned" ELSE "raised"]
    /\ proc' = [proc EXCEPT ![c] = ProcAfterExit(proc[c])]
    /\ outcome' = [outcome EXCEPT ![c] = out]

\* Lines 148-155 for the cache as read: find the tool, raise or call it
ResolveAndCall(c, cache) ==
    /\ seen' = [seen EXCEPT ![c] = cache]
    /\ IF FindTool(cache.tools, tool_name[c])
       THEN /\ wire' = [wire EXCEPT ![c] =
                          Append(@, CallMsg(tool_name[c], kwargs[c]))]
            /\ pc' = [pc EXCEPT ![c] = "calling"]
            /\ UNCHANGED leaving
       ELSE /\ EnterExits(c, ToolNotFound(tool_name[c], cache.tools))
            /\ UNCHANGED wire
    /\ UNCHANGED <<proc, outcome>>

Exited(c) == pc[c] \in {"idle", "returned", "raised"}

\* A caller starts discover_and_invoke_tool(name, **arguments)
Start(c, name, arguments) ==
    /\ program = "hr_agent"
    /\ Exited(c)
    /\ invocations < MaxInvocations
    /\ invocations' = invocations + 1
    /\ pc' = [pc EXCEPT ![c] = "spawning"]
    /\ tool_name' = [tool_name EXCEPT ![c] = name]
    /\ kwargs' = [kwargs EXCEPT ![c] = arguments]
    /\ proc' = [proc EXCEPT ![c] = "none"]
    /\ wire' = [wire EXCEPT ![c] = <<>>]
    /\ init' = [init EXCEPT ![c] = "none"]
    /\ seen' = [seen EXCEPT ![c] = NoCache]
    /\ leaving' = [leaving EXCEPT ![c] = NoOutcome]
    /\ outcome' = [outcome EXCEPT ![c] = NoOutcome]
    /\ UNCHANGED <<_mcp_tools_cache, server_tools, discoveries, listed,
                   cache_writes, failed_lists>>
    /\ UNCHANGED <<program, httpVars, sseVars, reportVars, parseVars>>

\* asyncio.run(discover_and_invoke_tool(...)) in the tools of hr_agent.py
\* (match_resumes, get_job_description_content): the agent's thread, caller 1,
\* runs one invocation to its end before the next
Invoke(c, name) ==
    /\ c = 1
    /\ \A d \in Callers : Exited(d)
    /\ Start(c, name, NoKwargs)
    /\ UNCHANGED matchVars

\* Another coroutine of the same process awaits discover_and_invoke_tool, or
\* an invocation starts while one is under way
InvokeConcurrently(c, name) ==
    /\ c # 1 \/ \E d \in Callers : ~Exited(d)
    /\ Start(c, name, NoKwargs)
    /\ UNCHANGED matchVars

\* async with stdio_client(...), async with ClientSession(...): the server
\* process starts (or fails to) and session.initialize() sends its request
Spawn(c, started) ==
    /\ program = "hr_agent"
    /\ pc[c] = "spawning"
    /\ IF started
       THEN /\ proc' = [proc EXCEPT ![c] = "alive"]
            /\ wire' = [wire EXCEPT ![c] = <<Msg("initialize", "")>>]
            /\ init' = [init EXCEPT ![c] = "pending"]
            /\ pc' = [pc EXCEPT ![c] = "initializing"]
            /\ UNCHANGED outcome
       ELSE /\ ExitWith(c, Fail("SpawnError"))
            /\ UNCHANGED <<wire, init>>
    /\ UNCHANGED <<tool_name, kwargs, seen, leaving, cacheVars>>
    /\ UNCHANGED <<program, httpVars, sseVars, toolVars>>

\* await session.initialize() ends; on success the cache is looked at, and
\* either tools/list is sent or the cached tools are used right away
Initialize(c, ok) ==
    /\ program = "hr_agent"
    /\ pc[c] = "initializing"
    /\ init' = [init EXCEPT ![c] = IF ok THEN "ok" ELSE "failed"]
    /\ IF ~ok
       THEN /\ EnterExits(c, Fail("InitializeError"))
            /\ UNCHANGED <<proc, outcome, wire, seen, discoveries>>
       ELSE IF NeedsDiscovery(_mcp_tools_cache)
       THEN /\ wire' = [wire EXCEPT ![c] = Append(@, Msg("tools/list", ""))]
            /\ pc' = [pc EXCEPT ![c] = "listing"]
            /\ UNCHANGED <<proc, outcome, leaving, seen, discoveries>>
       ELSE /\ discoveries' =
                 Append(discoveries,
                        [catalog |-> _mcp_tools_cache.tools,
                         round_trip |-> FALSE])
            /\ ResolveAndCall(c, _mcp_tools_cache)
    /\ UNCHANGED <<tool_name, kwargs, _mcp_tools_cache, server_tools,
                   invocations, listed, cache_writes, failed_lists>>
    /\ UNCHANGED <<program, httpVars, sseVars, toolVars>>

\* await session.list_tools() ends: the whole list is stored, or the
\* exception leaves the blocks with the cache as it was
ListTools(c, ok) ==
    /\ program = "hr_agent"
    /\ pc[c] = "listing"
    /\ IF ok
       THEN /\ _mcp_tools_cache' = StoreCatalog(server_tools)
            /\ cache_writes' = cache_writes + 1
            /\ listed' = listed \cup {server_tools}
            /\ discoveries' =
                 Append(discoveries,
                        [catalog |-> _mcp_tools_cache'.tools,
                         round_trip |-> TRUE])
            /\ ResolveAndCall(c, _mcp_tools_cache')
            /\ UNCHANGED failed_lists
       ELSE /\ failed_lists' = failed_lists + 1
            /\ EnterExits(c, Fail("ListToolsError"))
            /\ UNCHANGED <<_mcp_tools_cache, cache_writes, listed, discoveries,
                           wire, seen, proc, outcome>>
    /\ UNCHANGED <<tool_name, kwargs, init, server_tools, invocations>>
    /\ UNCHANGED <<program, httpVars, sseVars, toolVars>>

\* await session.call_tool(tool_name, kwargs) ends, and the result is
\* parsed: a return or a raise, from inside the blocks
CallTool(c, reply) ==
    /\ program = "hr_agent"
    /\ pc[c] = "calling"
    /\ EnterExits(c, IF reply.failed THEN Fail("CallToolError")
                      ELSE ParseContent(reply.content, 1))
    /\ UNCHANGED <<tool_name, kwargs, proc, outcome, wire, init, seen,
                   cacheVars>>
    /\ UNCHANGED <<program, httpVars, sseVars, toolVars>>

\* The exits of the async with blocks end: the invocation returns or raises
\* what it left the blocks with
LeaveBlocks(c) ==
    /\ program = "hr_agent"
    /\ pc[c] = "exiting"
    /\ ExitWith(c, leaving[c])
    /\ UNCHANGED <<tool_name, kwargs, wire, init, seen, leaving, cacheVars>>
    /\ UNCHANGED <<program, httpVars, sseVars, toolVars>>

\* The server's tool list changes (a redeployed server)
ServerChangesTools(tools) ==
    /\ program = "hr_agent"
    /\ tools # server_tools
    /\ server_tools' = tools
    /\ UNCHANGED <<_mcp_tools_cache, invocations, discoveries, listed,
                   cache_writes, failed_lists>>
    /\ UNCHANGED <<callerVars, program, httpVars, sseVars, toolVars>>

\* ------------------------------------------------ hr_agent.py: match_resumes
RESUMES_FOLDER == "resumes"

SUPPORTED_FILE_EXTENSIONS == {".txt", ".pdf", ".docx"}

MAX_FILE_SIZE_MB == 10

\* str.lower() on a file extension
Lower(ext) ==
    CASE ext = ".PDF" -> ".pdf"
      [] ext = ".TXT" -> ".txt"
      [] OTHER -> ext

\* What the file system may hold under a name of the folder: the extension
\* of the name, whether the file is (still) there, its size in MB, whether
\* its reader gets a text out of it
FileKinds ==
    {[ext |-> ".txt", exists |-> TRUE, size_mb |-> 1, parses |-> TRUE],
     [ext |-> ".PDF", exists |-> TRUE, size_mb |-> 10, parses |-> TRUE],
     [ext |-> ".txt", exists |-> FALSE, size_mb |-> 0, parses |-> TRUE],
     [ext |-> ".docx", exists |-> TRUE, size_mb |-> 11, parses |-> TRUE],
     [ext |-> ".pdf", exists |-> TRUE, size_mb |-> 1, parses |-> FALSE],
     [ext |-> ".md", exists |-> TRUE, size_mb |-> 1, parses |-> TRUE]}

\* The i-th entry of the folder: the file named <i><ext>, with its own text
DirEntry(i, kind) ==
    [stem |-> i, ext |-> kind.ext, exists |-> kind.exists,
     size_mb |-> kind.size_mb, parses |-> kind.parses, text |-> <<"text", i>>]

\* os.listdir(RESUMES_FOLDER): up to n entries
RECURSIVE Listings(_)
Listings(n) ==
    IF n = 0 THEN {<<>>}
    ELSE Listings(n - 1)
         \cup {Append(d, DirEntry(n, k)) : d \in {l \in Listings(n - 1) : Len(l) = n - 1},
                                           k \in FileKinds}

FileName(e) == [stem |-> e.stem, ext |-> e.ext]

\* os.path.join(RESUMES_FOLDER, f)
JoinPath(folder, f) == [folder |-> folder, file |-> f]

\* os.path.basename(file_path)
Basename(path) == path.file

\* f.lower().endswith(SUPPORTED_FILE_EXTENSIONS)
EndsWithSupported(f) == Lower(f.ext) \in SUPPORTED_FILE_EXTENSIONS

\* resume_files = [os.path.join(RESUMES_FOLDER, f)
\*                 for f in os.listdir(RESUMES_FOLDER) if f.lower().endswith(...)]
RECURSIVE ListResumes(_)
ListResumes(dir) ==
    IF dir = <<>> THEN <<>>
    ELSE (IF EndsWithSupported(FileName(Head(dir)))
          THEN <<JoinPath(RESUMES_FOLDER, FileName(Head(dir)))>>
          ELSE <<>>)
         \o ListResumes(Tail(dir))

\* The file a path of the folder leads to
FileAt(dir, path) ==
    CHOOSE e \in {dir[i] : i \in 1..Len(dir)} : FileName(e) = path.file

\* validate_file_path(file_path): the exception it raises, or "ok"
validate_file_path(path, dir) ==
    IF ~FileAt(dir, path).exists THEN "FileNotFoundError"
    ELSE IF FileAt(dir, path).size_mb > MAX_FILE_SIZE_MB THEN "ValueError"
    ELSE IF ~EndsWithSupported(path.file) THEN "ValueError"
    ELSE "ok"

ReadOk(text) == [ok |-> TRUE, error |-> "", text |-> text]

ReadError(error) == [ok |-> FALSE, error |-> error, text |-> <<>>]

\* read_file_content(file_path): the text, or the exception re-raised
read_file_content(path, dir) ==
    IF validate_file_path(path, dir) # "ok"
    THEN ReadError(validate_file_path(path, dir))
    ELSE IF Lower(path.file.ext) \in {".txt", ".pdf", ".docx"}
         THEN IF FileAt(dir, path).parses
              THEN ReadOk(FileAt(dir, path).text)
              ELSE ReadError("ReaderError")
         ELSE ReadError("ValueError")

NothingRead == [texts |-> <<>>, filenames |-> <<>>, skipped |-> <<>>]

\* Faulty variant: the filename is appended before the file is read, so a file
\* that fails to read leaves its name behind
ReadOne_NameFirst(acc, path, dir) ==
    IF read_file_content(path, dir).ok
    THEN [acc EXCEPT !.texts = Append(@, read_file_content(path, dir).text),
                     !.filenames = Append(@, Basename(path))]
    ELSE [acc EXCEPT !.filenames = Append(@, Basename(path)),
                     !.skipped = Append(@, path)]

\* Faulty variant: a read failure is not caught per file: what was read before
\* it is lost
ReadOne_Abort(acc, path, dir) ==
    IF read_file_content(path, dir).ok
    THEN [acc EXCEPT !.texts = Append(@, read_file_content(path, dir).text),
                     !.filenames = Append(@, Basename(path))]
    ELSE [acc EXCEPT !.texts = <<>>, !.filenames = <<>>,
                     !.skipped = Append(@, path)]

\* One turn of the loop over resume_files:
\* try: content = read_file_content(file_path); resume_texts.append(content);
\*      resume_filenames.append(os.path.basename(file_path))
\* except Exception: logger.warning(f"Skipping {file_path}: {e}"); continue
ReadOne(acc, path, dir) ==
    IF read_file_content(path, dir).ok
    THEN [acc EXCEPT !.texts = Append(@, read_file_content(path, dir).text),
                     !.filenames = Append(@, Basename(path))]
    ELSE [acc EXCEPT !.skipped = Append(@, path)]

\* for file_path in resume_files: ...
RECURSIVE ReadResumes(_, _, _)
ReadResumes(files, dir, acc) ==
    IF files = <<>> THEN acc
    ELSE ReadResumes(Tail(files), dir, ReadOne(acc, Head(files), dir))

\* What match_resumes returns or raises
MatchReturned(records) == [kind |-> "ok", error |-> "", value |-> records]

MatchRaised(error) == [kind |-> "raise", error |-> error, value |-> <<>>]

NoMatchResult == [kind |-> "none", error |-> "", value |-> <<>>]

\* discover_and_invoke_tool(MCP_TOOL_RANK_RESUMES, job_description=...,
\*                          resume_texts=..., resume_filenames=...)
RankKwargs(jd, texts, filenames) ==
    [job_description |-> jd, resume_texts |-> texts,
     resume_filenames |-> filenames]

\* match_resumes up to the invocation of the ranking tool: the files are
\* listed and read, and either a ValueError ends the run (the except clause
\* logs and re-raises) or asyncio.run(discover_and_invoke_tool(...)) starts
MatchResumesBegin ==
    /\ program = "hr_agent"
    /\ mpc = "start"
    /\ LET resume_files == ListResumes(resumes_dir)
           read == ReadResumes(resume_files, resumes_dir, NothingRead)
       IN /\ resume_texts' = read.texts
          /\ resume_filenames' = read.filenames
          /\ skipped' = read.skipped
          /\ IF resume_files = <<>>
             THEN /\ mpc' = "done"
                  /\ match_result' = MatchRaised("NoResumeFiles")
                  /\ UNCHANGED <<agentVars, program, httpVars, sseVars,
                                 reportVars, parseVars>>
             ELSE IF read.texts = <<>>
             THEN /\ mpc' = "done"
                  /\ match_result' = MatchRaised("NoReadableResumes")
                  /\ UNCHANGED <<agentVars, program, httpVars, sseVars,
                                 reportVars, parseVars>>
             ELSE /\ mpc' = "invoking"
                  /\ match_result' = match_result
                  /\ Start(1, MCP_TOOL_RANK_RESUMES,
                           RankKwargs(job_description, read.texts,
                                      read.filenames))
    /\ UNCHANGED <<job_description, resumes_dir>>

\* A JSON object: its members, <<key, value>>, in order.
\* The entry of the rankings for the i-th resume, with a score or without
RankData(i, score) ==
    <<<<"resumeFilename", [stem |-> i, ext |-> ".txt"]>>,
      <<"score", score>>, <<"rank", i>>>>

RankDataNoScore(i) ==
    <<<<"resumeFilename", [stem |-> i, ext |-> ".txt"]>>, <<"rank", i>>>>

\* The place of a key among the members of an object
Member(obj, key) == CHOOSE i \in 1..Len(obj) : obj[i][1] = key

HasKey(obj, key) == \E i \in 1..Len(obj) : obj[i][1] = key

\* obj.get(key, default)
Get(obj, key, default) ==
    IF HasKey(obj, key) THEN obj[Member(obj, key)][2] ELSE default

\* The name "Unknown", file names being <number><extension>
Unknown == [stem |-> 0, ext |-> ""]

\* Path(filename).stem.replace('_', ' ').title(): the stem; a stem of digits
\* has no underscore to replace and no letter to capitalise
NameOf(filename) == filename.stem

\* The record match_resumes makes of one entry of the rankings
TransformOne(rank_data) ==
    <<<<"name", NameOf(Get(rank_data, "resumeFilename", Unknown))>>,
      <<"percentage", Get(rank_data, "score", 0)>>,
      <<"skills_available", Get(rank_data, "strengths", <<>>)>>,
      <<"skills_missing", Get(rank_data, "improvements", <<>>)>>,
      <<"rank", Get(rank_data, "rank", 0)>>>>

\* for rank_data in rankings: transformed_results.append({...})
Transform(ranked) == [i \in 1..Len(ranked) |-> TransformOne(ranked[i])]

\* rankings = result.get("rankings", []): the rankings of T_Rankings for the
\* dict decoded from it, [] for a dict without the member
RankingsOf(result) ==
    IF "rankings" \in result.keys THEN <<RankData(1, 90)>> ELSE <<>>

\* match_resumes from the return of asyncio.run on: the exception goes
\* through the except clause (logged, re-raised), a result is transformed
\* and returned
MatchResumesEnd ==
    /\ program = "hr_agent"
    /\ mpc = "invoking"
    /\ pc[1] \in {"returned", "raised"}
    /\ mpc' = "done"
    /\ match_result' =
         IF outcome[1].kind = "raise" THEN MatchRaised(outcome[1].error)
         ELSE IF outcome[1].value.t # "dict" THEN MatchRaised("AttributeError")
         ELSE MatchReturned(Transform(RankingsOf(outcome[1].value)))
    /\ UNCHANGED <<job_description, resumes_dir, resume_texts,
                   resume_filenames, skipped>>
    /\ UNCHANGED <<agentVars, program, httpVars, sseVars, reportVars,
                   parseVars>>

InitMatchIdle ==
    /\ job_description = ""
    /\ resumes_dir = <<>>
    /\ mpc = "idle"
    /\ resume_texts = <<>>
    /\ resume_filenames = <<>>
    /\ skipped = <<>>
    /\ match_result = NoMatchResult

\* ---------------------------------------------- hr_agent.py: generate_report
\* The scores a ranking tool gives
Scores == {40, 70, 90}

RECURSIVE RankingsUpTo(_)
RankingsUpTo(n) ==
    IF n = 0 THEN {<<>>}
    ELSE RankingsUpTo(n - 1)
         \cup {Append(r, d) :
                 r \in {q \in RankingsUpTo(n - 1) : Len(q) = n - 1},
                 d \in {RankData(n, sc) : sc \in Scores}
                       \cup {RankDataNoScore(n)}}

\* key=lambda x: x.get('percentage', 0)
Percentage(x) == Get(x, "percentage", 0)

\* Faulty variant: a record goes before the records of its own score, as when an
\* ascending sort is reversed
InsertByScore_BeforeTies(sorted, x) ==
    LET k == Cardinality({i \in 1..Len(sorted) :
                             Percentage(sorted[i]) > Percentage(x)})
    IN SubSeq(sorted, 1, k) \o <<x>> \o SubSeq(sorted, k + 1, Len(sorted))

\* The place of one more record in a list sorted by sorted(..., reverse=True):
\* after every record whose key is not smaller
InsertByScore(sorted, x) ==
    LET k == Cardinality({i \in 1..Len(sorted) :
                             Percentage(sorted[i]) >= Percentage(x)})
    IN SubSeq(sorted, 1, k) \o <<x>> \o SubSeq(sorted, k + 1, Len(sorted))

\* sorted(data, key=lambda x: x.get('percentage', 0), reverse=True)
RECURSIVE SortedByScore(_, _)
SortedByScore(data, acc) ==
    IF data = <<>> THEN acc
    ELSE SortedByScore(Tail(data), InsertByScore(acc, Head(data)))

\* "## Rank {rank}: {name}" and "**Match Score:** {percentage}%"
ReportEntry(rank, candidate) ==
    [rank |-> rank, name |-> Get(candidate, "name", Unknown.stem),
     score |-> Get(candidate, "percentage", 0)]

NoTop == [some |-> FALSE, name |-> "", score |-> 0]

\* "- **Top Candidate:** {name} ({percentage}%)", if sorted_data
TopCandidate(sorted) ==
    IF sorted = <<>> THEN NoTop
    ELSE [some |-> TRUE, name |-> Get(sorted[1], "name", Unknown.stem),
          score |-> Get(sorted[1], "percentage", 0)]

NoReport == [written |-> FALSE, total |-> 0, entries |-> <<>>, top |-> NoTop]

\* The report file: the total, an entry per candidate, the summary
ReportOf(sorted) ==
    [written |-> TRUE, total |-> Len(sorted),
     entries |-> [i \in 1..Len(sorted) |-> ReportEntry(i, sorted[i])],
     top |-> TopCandidate(sorted)]

\* match_resumes on the rankings of a result: the records it returns
\* (json.dumps), handed on as generate_report's analysis_data
TransformRankings ==
    /\ rpc = "ranked"
    /\ rpc' = "analysed"
    /\ analysis_data' = Transform(rankings)
    /\ UNCHANGED <<rankings, sorted_data, report>>
    /\ UNCHANGED <<program, httpVars, sseVars, agentVars, matchVars, parseVars>>

\* generate_report(analysis_data): data = json.loads(analysis_data), sorted,
\* written out
GenerateReport ==
    /\ rpc = "analysed"
    /\ rpc' = "reported"
    /\ sorted_data' = SortedByScore(analysis_data, <<>>)
    /\ report' = ReportOf(sorted_data')
    /\ UNCHANGED <<rankings, analysis_data>>
    /\ UNCHANGED <<program, httpVars, sseVars, agentVars, matchVars, parseVars>>

InitReportIdle ==
    /\ rpc = "idle"
    /\ rankings = <<>>
    /\ analysis_data = <<>>
    /\ sorted_data = <<>>
    /\ report = NoReport

\* --------------- hr_agent.py: discover_and_invoke_tool's parsing of a result
\* Lines 158-164 on the content of one result
ParseResult ==
    /\ parsed = NoOutcome
    /\ parsed' = ParseContent(result_content, 1)
    /\ UNCHANGED <<result_content, program, httpVars, sseVars, agentVars, matchVars,
                   reportVars>>

InitParseIdle ==
    /\ result_content = <<>>
    /\ parsed = Ok(PyNone)

InitAgent ==
    /\ _mcp_tools_cache = NoCache
    /\ server_tools \in (IF program = "hr_agent" THEN Catalogs ELSE {<<>>})
    /\ pc = [c \in Callers |-> "idle"]
    /\ tool_name = [c \in Callers |-> ""]
    /\ proc = [c \in Callers |-> "none"]
    /\ wire = [c \in Callers |-> <<>>]
    /\ init = [c \in Callers |-> "none"]
    /\ seen = [c \in Callers |-> NoCache]
    /\ leaving = [c \in Callers |-> NoOutcome]
    /\ outcome = [c \in Callers |-> NoOutcome]
    /\ kwargs = [c \in Callers |-> NoKwargs]
    /\ invocations = 0
    /\ discoveries = <<>>
    /\ listed = {}
    /\ cache_writes = 0
    /\ failed_lists = 0

InitHttp ==
    /\ hpc = "initialize"
    /\ message_id = 1
    /\ session_id = None
    /\ trace = <<>>
    /\ last = Raised("pending")
    /\ init_result = Raised("pending")
    /\ tool_names = <<>>
    /\ test_result = None

vars == <<program, httpVars, sseVars, agentVars, toolVars>>

Init ==
    /\ program \in {"hr_agent", "test_mcp_http"}
    /\ InitHttp
    /\ InitAgent
    /\ response = NoReply
    /\ decoded = Raised("pending")
    /\ InitMatchIdle
    /\ InitReportIdle
    /\ InitParseIdle

NextHttp ==
    \E reply \in Replies :
        \/ HttpInitialize(reply)
        \/ HttpNotifyInitialized(reply)
        \/ HttpListTools(reply)
        \/ HttpCallTool(reply)

NextAgent ==
    \/ \E c \in Callers, name \in InvokedTools : Invoke(c, name)
    \/ \E c \in Callers, ok \in BOOLEAN : Spawn(c, ok)
    \/ \E c \in Callers, ok \in BOOLEAN : Initialize(c, ok)
    \/ \E c \in Callers, ok \in BOOLEAN : ListTools(c, ok)
    \/ \E c \in Callers, reply \in CallReplies : CallTool(c, reply)
    \/ \E c \in Callers : LeaveBlocks(c)
    \/ \E tools \in Catalogs : ServerChangesTools(tools)

Next == NextHttp \/ NextAgent

\* The programs as they run: hr_agent.py invokes one tool at a time
Spec == Init /\ [][Next]_vars

\* discover_and_invoke_tool awaited by several callers of one event loop
NextConcurrent ==
    \/ NextAgent
    \/ \E c \in Callers, name \in InvokedTools : InvokeConcurrently(c, name)

InitConcurrent ==
    /\ program = "hr_agent"
    /\ InitHttp
    /\ InitAgent
    /\ response = NoReply
    /\ decoded = Raised("pending")
    /\ InitMatchIdle
    /\ InitReportIdle
    /\ InitParseIdle

SpecConcurrent == InitConcurrent /\ [][NextConcurrent]_vars

\* send_jsonrpc's decoding as a function of the response
InitSse ==
    /\ program = "test_mcp_http"
    /\ InitHttp
    /\ InitAgent
    /\ response \in Responses
    /\ decoded = Raised("pending")
    /\ InitMatchIdle
    /\ InitReportIdle
    /\ InitParseIdle

SpecSse == InitSse /\ [][DecodeResponse]_vars

\* One run of match_resumes in a fresh process, on a folder and a server
JobDescriptions == {"backend engineer", "data analyst"}

InitMatch ==
    /\ program = "hr_agent"
    /\ InitHttp
    /\ InitAgent
    /\ response = NoReply
    /\ decoded = Raised("pending")
    /\ job_description \in JobDescriptions
    /\ resumes_dir \in Listings(MaxFiles)
    /\ mpc = "start"
    /\ resume_texts = <<>>
    /\ resume_filenames = <<>>
    /\ skipped = <<>>
    /\ match_result = NoMatchResult
    /\ InitReportIdle
    /\ InitParseIdle

NextMatch ==
    \/ MatchResumesBegin
    \/ \E ok \in BOOLEAN : Spawn(1, ok)
    \/ \E ok \in BOOLEAN : Initialize(1, ok)
    \/ \E ok \in BOOLEAN : ListTools(1, ok)
    \/ \E reply \in CallReplies : CallTool(1, reply)
    \/ LeaveBlocks(1)
    \/ MatchResumesEnd

SpecMatch == InitMatch /\ [][NextMatch]_vars

\* The rankings of a result on their way through match_resumes and
\* generate_report
InitReport ==
    /\ program = "hr_agent"
    /\ InitHttp
    /\ InitAgent
    /\ response = NoReply
    /\ decoded = Raised("pending")
    /\ server_tools = <<>>
    /\ InitMatchIdle
    /\ rpc = "ranked"
    /\ rankings \in RankingsUpTo(MaxRecords)
    /\ analysis_data = <<>>
    /\ sorted_data = <<>>
    /\ report = NoReport
    /\ InitParseIdle

SpecReport == InitReport /\ [][TransformRankings \/ GenerateReport]_vars

\* The result parsing as a function of the content
InitParse ==
    /\ program = "hr_agent"
    /\ InitHttp
    /\ InitAgent
    /\ response = NoReply
    /\ decoded = Raised("pending")
    /\ server_tools = <<>>
    /\ InitMatchIdle
    /\ InitReportIdle
    /\ result_content \in ContentsUpTo(MaxItems)
    /\ parsed = NoOutcome

SpecParse == InitParse /\ [][ParseResult]_vars

\* ================================================================== claims

\* ------------------------------------------------------------------- C1
\* C1: in one process, every completed tool-discovery step sees the same
\* catalog as the first one, only the first performs a tools/list round-trip,
\* and once a discovery step has completed no tools/list is sent again:
\* exactly one successful round-trip in total.
C1_IdempotentDiscovery ==
    /\ \A i \in 1..Len(discoveries) :
          /\ discoveries[i].catalog = discoveries[1].catalog
          /\ discoveries[i].round_trip <=> (i = 1)
    /\ Len(discoveries) >= 1 =>
          /\ cache_writes = 1
          /\ \A c \in Callers : pc[c] # "listing"

\* Two discovery steps done, the second from the cache, while the server has
\* come to declare other tools than the cached ones
C1_Witness ==
    /\ Len(discoveries) >= 2
    /\ server_tools # discoveries[1].catalog
    /\ ~discoveries[2].round_trip

\* ------------------------------------------------------------------- C2
\* C2: the cache is empty or holds a whole list that one successful tools/list
\* returned; an invocation whose discovery failed raises (it is in the exits
\* of its blocks, or back at the caller with the error) and has left the
\* cache empty; and an invocation that finds the cache empty after
\* initialize sends tools/list (discovery is retried from scratch).
C2_CacheAllOrNothing ==
    /\ _mcp_tools_cache.some => _mcp_tools_cache.tools \in listed
    /\ ~_mcp_tools_cache.some => _mcp_tools_cache = NoCache
    /\ \A c \in Callers :
          /\ leaving[c].error = "ListToolsError" =>
                /\ pc[c] \in {"exiting", "raised"}
                /\ pc[c] = "raised" => outcome[c] = Fail("ListToolsError")
                /\ ~_mcp_tools_cache.some
          /\ (init[c] = "ok" /\ ~_mcp_tools_cache.some) =>
                InSeq(Msg("tools/list", ""), wire[c])

\* A discovery failed, and a later invocation retried it and filled the cache
C2_Witness ==
    /\ failed_lists >= 1
    /\ _mcp_tools_cache.some
    /\ _mcp_tools_cache.tools # <<>>

\* ------------------------------------------------------------------- C3
IsIdRequest(e) == e.dir = "request" /\ e.has_id

IdRequests == SelectSeq(trace, IsIdRequest)

\* C3: on the HTTP session the messages that are no notification carry the
\* ids 1, 2, ..., N in the order sent, whether or not they were answered;
\* a notification carries no id and takes none.
C3_IdMonotonic ==
    /\ \A i \in 1..Len(IdRequests) : IdRequests[i].id = i
    /\ message_id = Len(IdRequests) + 1
    /\ \A k \in 1..Len(trace) :
          (trace[k].dir = "request" /\ ~trace[k].has_id) =>
             /\ trace[k].method = "notifications/initialized"
             /\ trace[k].id = 0

\* Three requests and the notification sent, one request answered with an
\* HTTP error and the last one not answered at all
C3_Witness ==
    /\ Len(IdRequests) = 3
    /\ last.raised
    /\ \E k \in 1..Len(trace) :
          trace[k].dir = "response" /\ trace[k].status = 500
    /\ \E k \in 1..Len(trace) : trace[k].dir = "request" /\ ~trace[k].has_id

\* ------------------------------------------------------------------- C4
\* C4: an invocation of a name that is not in the catalog it looked up
\* raises ToolNotFound (it is in the exits of its blocks with it, or back at
\* the caller), naming the tool and listing the catalog's names, and has
\* sent no tools/call; every tools/call sent names a tool of the catalog.
C4_UnknownTool ==
    \A c \in Callers :
       /\ (seen[c].some /\ ~InSeq(tool_name[c], seen[c].tools)) =>
             /\ pc[c] \in {"exiting", "raised"}
             /\ leaving[c] = ToolNotFound(tool_name[c], seen[c].tools)
             /\ pc[c] = "raised" =>
                   outcome[c] = ToolNotFound(tool_name[c], seen[c].tools)
             /\ \A k \in 1..Len(wire[c]) : wire[c][k].method # "tools/call"
       /\ \A k \in 1..Len(wire[c]) :
             wire[c][k].method = "tools/call" =>
                /\ seen[c].some
                /\ wire[c][k].name = tool_name[c]
                /\ InSeq(wire[c][k].name, seen[c].tools)
       /\ seen[c].some => seen[c] = _mcp_tools_cache

\* ToolNotFound raised against a catalog that holds other tools
C4_Witness ==
    \E c \in Callers :
       /\ outcome[c].error = "ToolNotFound"
       /\ outcome[c].tool = MCP_TOOL_FETCH_JOB_DESC
       /\ outcome[c].available = <<MCP_TOOL_RANK_RESUMES>>

\* ------------------------------------------------------------------- C5
IsRequest(e) == e.dir = "request"

Requests == SelectSeq(trace, IsRequest)

\* initialize on the HTTP session came back with a result
HttpInitSucceeded == ~init_result.raised /\ Truthy(init_result.value)

\* C5: on every session (the stdio session of an invocation, the HTTP
\* session) the first message sent is initialize; tools/list and tools/call
\* are sent only on a session whose initialize succeeded; and on a session
\* whose initialize failed nothing is sent after it.
C5_HandshakeFirst ==
    /\ \A c \in Callers :
          /\ wire[c] # <<>> => wire[c][1].method = "initialize"
          /\ \A k \in 1..Len(wire[c]) :
                wire[c][k].method \in {"tools/list", "tools/call"} =>
                   init[c] = "ok"
          /\ init[c] \in {"pending", "failed"} => Len(wire[c]) = 1
          /\ init[c] = "failed" => pc[c] \in {"exiting", "raised"}
    /\ Requests # <<>> => Requests[1].method = "initialize"
    /\ \A k \in 1..Len(Requests) :
          Requests[k].method \in {"tools/list", "tools/call"} =>
             HttpInitSucceeded
    /\ (Requests # <<>> /\ ~HttpInitSucceeded) =>
          /\ Len(Requests) = 1
          /\ hpc = "done"
          /\ test_result = "False"

\* The HTTP test went through initialize, the notification, tools/list and
\* tools/call
C5_Witness ==
    /\ Len(Requests) = 4
    /\ Requests[3].method = "tools/list"
    /\ Requests[4].method = "tools/call"
    /\ test_result = "True"

\* ------------------------------------------------------------------- C6
\* C6: however concurrent invocations interleave, the process-wide cache is
\* assigned once in the process lifetime, or again only after a failed
\* discovery attempt.
C6_CacheWrittenOnce == cache_writes <= 1 \/ failed_lists >= 1

\* ------------------------------------------------------------------- C7
\* C7: whenever control is back with the caller of an invocation (it
\* returned or raised, on whichever path), the server process spawned for
\* that invocation is not alive; a live process belongs to an invocation
\* still inside its async with blocks or in their exits, which has not
\* returned anything yet; what comes back is what the blocks were left with.
C7_ScopedRelease ==
    \A c \in Callers :
       /\ Exited(c) => proc[c] # "alive"
       /\ pc[c] \in {"initializing", "listing", "calling", "exiting"}
             <=> proc[c] = "alive"
       /\ pc[c] = "exiting" => outcome[c] = NoOutcome
       /\ pc[c] \in {"returned", "raised"} =>
             \/ proc[c] = "terminated" /\ outcome[c] = leaving[c]
             \/ proc[c] = "none" /\ outcome[c] = Fail("SpawnError")

\* An invocation raised on a result that is no JSON, with its process ended
C7_Witness ==
    \E c \in Callers :
       /\ pc[c] = "raised"
       /\ outcome[c].error = "JSONDecodeError"
       /\ proc[c] = "terminated"

\* ------------------------------------------------------------------- C8
\* a response before position k carried the session header
HeaderBefore(k) ==
    \E j \in 1..(k - 1) : trace[j].dir = "response" /\ trace[j].session # None

IsResponse(e) == e.dir = "response"

ResponsesSeen == SelectSeq(trace, IsResponse)

\* C8 as stated: if the first response carries the session header, the
\* session stores its value; every request sent after a response carried the
\* header carries the stored token; every request sent before carries none.
C8_SessionToken ==
    /\ (ResponsesSeen # <<>> /\ ResponsesSeen[1].session # None) =>
          session_id = ResponsesSeen[1].session
    /\ \A k \in 1..Len(trace) :
          trace[k].dir = "request" =>
             IF HeaderBefore(k)
             THEN session_id # None /\ trace[k].session = session_id
             ELSE trace[k].session = None

\* the header is present with a value that is not empty
IsToken(h) == h # None /\ h # ""

\* a response before position k carried the session header with a token
TokenBefore(k) ==
    \E j \in 1..(k - 1) : trace[j].dir = "response" /\ IsToken(trace[j].session)

\* a response before position k carried the session header with no value
EmptyHeaderBefore(k) ==
    \E j \in 1..(k - 1) : trace[j].dir = "response" /\ trace[j].session = ""

\* C8, amended: a first response whose session header holds a token has that
\* token stored; every request sent after a response carried a token carries
\* the stored token; every request sent before carries no session header,
\* also when a response before it carried the header with an empty value
\* (the empty value is stored, is never attached, and gives way to the first
\* token).
C8_NonEmptySessionToken ==
    /\ (ResponsesSeen # <<>> /\ IsToken(ResponsesSeen[1].session)) =>
          session_id = ResponsesSeen[1].session
    /\ \A k \in 1..Len(trace) :
          trace[k].dir = "request" =>
             IF TokenBefore(k)
             THEN IsToken(session_id) /\ trace[k].session = session_id
             ELSE trace[k].session = None
    /\ session_id = "" <=>
          (EmptyHeaderBefore(Len(trace) + 1) /\ ~TokenBefore(Len(trace) + 1))

\* The first response carried the header with an empty value and the request
\* after it carried no header; a later response carried a token, and the
\* request after that one carries it
C8_Witness ==
    /\ ResponsesSeen # <<>>
    /\ ResponsesSeen[1].session = ""
    /\ session_id = "s2"
    /\ \E k \in 1..Len(trace) :
          /\ trace[k].dir = "request"
          /\ EmptyHeaderBefore(k)
          /\ trace[k].session = None
    /\ \E k \in 1..Len(trace) :
          trace[k].dir = "request" /\ trace[k].session = "s2"

\* ------------------------------------------------------------------- C9
\* the k-th line of the body is a data frame whose data is a JSON document
FrameDecodes(body, k) ==
    /\ StartsWithData(SplitLines(body)[k])
    /\ json_loads(SseDataOf(SplitLines(body)[k])).ok

SomeFrameDecodes(body) ==
    \E k \in 1..Len(SplitLines(body)) : FrameDecodes(body, k)

Decoded == decoded # Raised("pending")

\* the value of the first data frame of the body that decodes
FirstDecoded(body) ==
    LET k == CHOOSE i \in 1..Len(SplitLines(body)) :
                 /\ FrameDecodes(body, i)
                 /\ \A j \in 1..(i - 1) : ~FrameDecodes(body, j)
    IN json_loads(SseDataOf(SplitLines(body)[k])).v

\* C9: for an event-stream response (status 200) the logical response is the
\* value of the first data frame that decodes, whatever value that is, and
\* decoding fails with "no valid JSON data" if and only if no data frame of
\* the body decodes.
C9_SseFirstDecodableFrame ==
    (Decoded /\ response.status = 200 /\ IsEventStream(response.content_type))
    => IF SomeFrameDecodes(response.body)
       THEN decoded = ErrorCheck(FirstDecoded(response.body))
       ELSE decoded = ReturnedNone("No valid JSON data in SSE stream")

\* ------------------------------------------------------------------ C10
\* the event-stream body whose single data frame is the text
SingleFrame(text) == DataLine(text) \o <<LF, LF>>

\* the plain JSON response with the text as its body, otherwise like resp
AsJson(resp, text) ==
    [resp EXCEPT !.content_type = "application/json", !.body = text]

\* C10: for every JSON-RPC response envelope E, what send_jsonrpc makes of an
\* event-stream response whose single data frame is E is what it makes of
\* the same response with content type application/json and body E.
C10_SseEquivalence ==
    \A E \in EnvelopeTexts :
       (Decoded /\ IsEventStream(response.content_type)
          /\ response.body = SingleFrame(E))
       => decoded = ProcessResponse(AsJson(response, E))

\* The spec's example: the stream "data: {...result...}\n\n" decoded to the
\* envelope
C10_Witness ==
    /\ Decoded
    /\ response.status = 200
    /\ IsEventStream(response.content_type)
    /\ response.body = SingleFrame(T_Result)
    /\ decoded = Returned(PyDict({"jsonrpc", "id", "result"}, <<>>))

\* ------------------------------------------------------------------ C11
\* a candidate document: an entry of the folder with a supported extension
IsCandidate(e) == e.ext \in {".txt", ".TXT", ".pdf", ".PDF", ".docx"}

\* a candidate that is there, within the size limit, and yields a text
IsReadable(e) ==
    IsCandidate(e) /\ e.exists /\ e.size_mb <= MAX_FILE_SIZE_MB /\ e.parses

IsUnreadable(e) == IsCandidate(e) /\ ~IsReadable(e)

Candidates == SelectSeq(resumes_dir, IsCandidate)

ReadableEntries == SelectSeq(resumes_dir, IsReadable)

UnreadableEntries == SelectSeq(resumes_dir, IsUnreadable)

\* the arguments a batched call carries: the job description, and text and
\* filename of every readable candidate, the i-th text with the i-th name
BatchOfReadable ==
    [job_description |-> job_description,
     resume_texts |->
        [i \in 1..Len(ReadableEntries) |-> ReadableEntries[i].text],
     resume_filenames |->
        [i \in 1..Len(ReadableEntries) |->
            [stem |-> ReadableEntries[i].stem, ext |-> ReadableEntries[i].ext]]]

IsToolsCall(m) == m.method = "tools/call"

\* the tools/call requests of the run
RankCalls == SelectSeq(wire[1], IsToolsCall)

\* the stdio session of the run got as far as a catalog that lists the tool
RankToolResolved == seen[1].some /\ InSeq(MCP_TOOL_RANK_RESUMES, seen[1].tools)

\* C11 as stated: a finished run of match_resumes over n >= 1 readable
\* candidate documents has issued exactly one tools/call, to the ranking
\* tool, with the texts and filenames of all readable candidates,
\* position-aligned, and of no other document.
C11_BatchedInvocation ==
    (mpc = "done" /\ ReadableEntries # <<>>) =>
       /\ Len(RankCalls) = 1
       /\ RankCalls[1].name = MCP_TOOL_RANK_RESUMES
       /\ RankCalls[1].arguments = BatchOfReadable

\* C11, amended: a run over n >= 1 readable candidate documents invokes the
\* ranking tool exactly once, with the texts and filenames of all readable
\* candidates, position-aligned, and of no other document; that invocation
\* issues at most one tools/call, carrying these arguments: exactly one once
\* its session has obtained a catalog that lists the ranking tool, none if
\* the session fails before. A run without a readable candidate invokes
\* nothing.
C11_BatchedWhenResolved ==
    /\ invocations <= 1
    /\ Len(RankCalls) <= 1
    /\ \A k \in 1..Len(RankCalls) :
          /\ RankCalls[k].name = MCP_TOOL_RANK_RESUMES
          /\ RankCalls[k].arguments = BatchOfReadable
          /\ Len(RankCalls[k].arguments.resume_texts) >= 1
    /\ (mpc \in {"invoking", "done"} /\ ReadableEntries # <<>>) =>
          /\ invocations = 1
          /\ tool_name[1] = MCP_TOOL_RANK_RESUMES
          /\ kwargs[1] = BatchOfReadable
          /\ RankToolResolved <=> Len(RankCalls) = 1
    /\ ReadableEntries = <<>> => invocations = 0

\* Three candidates, the second unreadable: the run returned after one
\* tools/call with the two others
C11_Witness ==
    /\ mpc = "done"
    /\ match_result.kind = "ok"
    /\ Len(Candidates) = 3
    /\ IsUnreadable(Candidates[2])
    /\ Len(RankCalls) = 1
    /\ Len(RankCalls[1].arguments.resume_filenames) = 2

\* ------------------------------------------------------------------ C12
NoCandidatesErrors == {"NoResumeFiles", "NoReadableResumes"}

\* what the reading loop leaves: every readable candidate read, every
\* unreadable one skipped with its own warning
ReadingDone ==
    /\ resume_texts = BatchOfReadable.resume_texts
    /\ resume_filenames = BatchOfReadable.resume_filenames
    /\ Len(skipped) = Len(UnreadableEntries)
    /\ \A i \in 1..Len(skipped) :
          /\ skipped[i].folder = RESUMES_FOLDER
          /\ skipped[i].file.stem = UnreadableEntries[i].stem
          /\ skipped[i].file.ext = UnreadableEntries[i].ext

\* C12 as stated: a read failure is caught for that document only and the
\* run goes on with the others; a finished run has succeeded whenever at
\* least one candidate is readable, and has failed with NoCandidates exactly
\* when there is no candidate or every candidate failed to read.
C12_PartialDocumentFailure ==
    mpc = "done" =>
       /\ ReadingDone
       /\ ReadableEntries # <<>> => match_result.kind = "ok"
       /\ match_result.error \in NoCandidatesErrors <=> ReadableEntries = <<>>

\* C12, amended: a read failure is caught for that document only and the
\* run goes on with the others; a run fails with NoCandidates exactly when
\* there is no candidate or every candidate failed to read; whenever at
\* least one candidate is readable the run goes on to invoke the ranking
\* tool and ends as that invocation and the handling of its result end:
\* with the invocation's error if it raised, with a result if it returned a
\* JSON object.
C12_PartialFailureThenInvocation ==
    /\ mpc \in {"invoking", "done"} => ReadingDone
    /\ mpc = "invoking" => ReadableEntries # <<>>
    /\ mpc = "done" =>
          /\ match_result.error \in NoCandidatesErrors <=> ReadableEntries = <<>>
          /\ match_result.error = "NoResumeFiles" <=> Candidates = <<>>
          /\ ReadableEntries # <<>> =>
                /\ invocations = 1
                /\ Exited(1)
                /\ match_result.kind = "ok" <=>
                      (outcome[1].kind = "ok" /\ outcome[1].value.t = "dict")
                /\ outcome[1].kind = "raise" =>
                      match_result = MatchRaised(outcome[1].error)

\* Three candidates of which the first and the last failed to read (one
\* gone, one too large): the run succeeded with the one in the middle
C12_Witness ==
    /\ mpc = "done"
    /\ match_result.kind = "ok"
    /\ Len(Candidates) = 3
    /\ ~Candidates[1].exists
    /\ Candidates[3].size_mb > MAX_FILE_SIZE_MB
    /\ Len(skipped) = 2
    /\ Len(resume_texts) = 1
    /\ Len(match_result.value) = 1

\* ------------------------------------------------------------------ C13
\* the score the ranking tool gave the k-th record it returned (none: 0)
ScoreGiven(k) == Get(rankings[k], "score", 0)

\* C13: the report lists the records in non-increasing score order; every
\* record the ranking tool returned is listed once, under its own score, and
\* nothing else is; two records of equal score stand in the order in which
\* the ranking tool returned them; the top candidate of the summary is the
\* first record listed.
C13_StableRankingSort ==
    rpc = "reported" =>
       /\ report.written
       /\ report.total = Len(rankings)
       /\ Len(report.entries) = Len(rankings)
       /\ Len(sorted_data) = Len(rankings)
       /\ \A i \in 1..Len(report.entries) :
             /\ report.entries[i].rank = i
             /\ report.entries[i].name = Get(sorted_data[i], "name", 0)
       /\ \A k \in 1..Len(rankings) :
             \E i \in 1..Len(report.entries) :
                /\ report.entries[i].name = k
                /\ report.entries[i].score = ScoreGiven(k)
       /\ \A i, j \in 1..Len(report.entries) :
             i < j =>
                /\ report.entries[i].score >= report.entries[j].score
                /\ report.entries[i].score = report.entries[j].score =>
                      report.entries[i].name < report.entries[j].name
       /\ rankings # <<>> =>
             /\ report.top.some
             /\ report.top.name = report.entries[1].name
             /\ report.top.score = report.entries[1].score
       /\ rankings = <<>> => ~report.top.some

\* The scores 70, 90, 90, 40 reported as 90 (the second record), 90 (the
\* third), 70, 40
C13_Witness ==
    /\ rpc = "reported"
    /\ Len(rankings) = 4
    /\ [k \in 1..4 |-> ScoreGiven(k)] = <<70, 90, 90, 40>>
    /\ [i \in 1..4 |-> report.entries[i].name] = <<2, 3, 1, 4>>
    /\ report.top.name = 2

\* ------------------------------------------------------------------ C14
HasText(item) == item.has_text

\* the first content item with a text attribute
FirstTextItem(items) ==
    items[CHOOSE k \in 1..Len(items) :
             /\ HasText(items[k])
             /\ \A j \in 1..(k - 1) : ~HasText(items[j])]

\* C14: what the parsing makes of a content list is the JSON decoding of the
\* text of its first item with a text, whatever comes after that item: the
\* decoded value returned, or the decoding's error raised; a list without
\* such an item, the empty list included, gives an empty dict, returned and
\* not raised.
C14_ResultDecoding ==
    parsed # NoOutcome =>
       IF \E k \in 1..Len(result_content) : HasText(result_content[k])
       THEN IF json_loads(FirstTextItem(result_content).text).ok
            THEN /\ parsed.kind = "ok"
                 /\ parsed.value = json_loads(FirstTextItem(result_content).text).v
            ELSE /\ parsed.kind = "raise"
                 /\ parsed.error = "JSONDecodeError"
       ELSE /\ parsed.kind = "ok"
            /\ parsed.value = PyDict({}, <<>>)

\* An item without text, then the text 5, then a text that is no JSON: 5 is
\* returned
C14_Witness ==
    /\ result_content = <<OtherItem, TextItem(T_Five), TextItem(T_Garbage)>>
    /\ parsed = Ok(PyInt(5))

\* ------------------------------------------------------------------ C15
\* a value came back and no error was reported
IsSuccess(d) == ~d.raised /\ d.value # PyNone /\ d.log = ""

\* None came back with an error reported, or an exception left send_jsonrpc
IsError(d) == d.raised \/ (d.value = PyNone /\ d.log # "")

\* the logical response is the envelope with the error member: as the body of
\* a JSON response, or as the first data line of an event stream
CarriesErrorEnvelope(resp) ==
    IF IsEventStream(resp.content_type)
    THEN SplitLines(resp.body)[1] = DataLine(T_Error)
    ELSE resp.body = T_Error

\* C15: whatever the status and the framing, a response whose envelope has
\* an error member is not returned as a success payload, no dict that is
\* returned has an error member, and what send_jsonrpc makes of a response
\* is either a success result or an error outcome, never both, never
\* neither.
C15_ErrorVersusResult ==
    Decoded =>
       /\ IsSuccess(decoded) # IsError(decoded)
       /\ CarriesErrorEnvelope(response) =>
             /\ IsError(decoded)
             /\ decoded.value = PyNone
       /\ (IsSuccess(decoded) /\ decoded.value.t = "dict") =>
             "error" \notin decoded.value.keys

\* An error envelope in an event stream with status 200, a result envelope
\* in the frame after it: None came back, with the MCP error reported
C15_Witness ==
    /\ Decoded
    /\ response.status = 200
    /\ IsEventStream(response.content_type)
    /\ response.body = JoinLines(<<DataLine(T_Error), DataLine(T_Result)>>)
    /\ decoded = ReturnedNone("MCP error")

\* ------------------------------------------------------------------ C16
IsInitializedNotification(e) ==
    e.dir = "request" /\ e.method = "notifications/initialized"

\* C16: on the HTTP session the notifications/initialized message is sent
\* only as the message right after an initialize that succeeded, and is the
\* message sent right after it; after an initialize that failed it is not
\* sent; and once it is sent, however it ended, the test goes on to
\* tools/list: the next message is tools/list.
C16_InitializedNotification ==
    /\ \A k \in 1..Len(Requests) :
          IsInitializedNotification(Requests[k]) =>
             /\ k = 2
             /\ Requests[1].method = "initialize"
             /\ HttpInitSucceeded
    /\ hpc = "notify" <=> (HttpInitSucceeded /\ Len(Requests) = 1)
    /\ Len(Requests) >= 2 => IsInitializedNotification(Requests[2])
    /\ Len(Requests) = 2 => hpc = "list"
    /\ Len(Requests) >= 3 => Requests[3].method = "tools/list"
    /\ (Requests # <<>> /\ ~HttpInitSucceeded) =>
          \A k \in 1..Len(trace) : ~IsInitializedNotification(trace[k])

\* The notification got no response at all (the POST raised), and the
\* request after it is tools/list
C16_Witness ==
    \E k \in 1..(Len(trace) - 1) :
       /\ IsInitializedNotification(trace[k])
       /\ trace[k + 1].dir = "request"
       /\ trace[k + 1].method = "tools/list"

\* ------------------------------------------------------------------ C17
CarriesHeader(e) == e.dir = "response" /\ e.session # None

\* the responses that carried the session header, in order
HeaderResponses == SelectSeq(trace, CarriesHeader)

\* C17 as stated: the session token is the header value of the first response
\* that carried the header, whatever the status of that response and whatever
\* header the responses after it carried (so it never changes once it is
\* captured); without such a response there is no token.
C17_TokenCapturedOnce ==
    IF HeaderResponses = <<>> THEN session_id = None
    ELSE session_id = HeaderResponses[1].session

CarriesToken(e) == e.dir = "response" /\ IsToken(e.session)

\* the responses that carried the session header with a token, in order
TokenResponses == SelectSeq(trace, CarriesToken)

\* C17, amended: the session token is the header value of the first response
\* that carried the header with a token, whatever the status of that response
\* and whatever header the responses after it carried (so it never changes
\* once a token is captured); as long as no response carried a token, what is
\* stored is the empty value if a response carried the header with an empty
\* value, and nothing otherwise.
C17_FirstTokenCapturedOnce ==
    IF TokenResponses # <<>> THEN session_id = TokenResponses[1].session
    ELSE IF HeaderResponses # <<>> THEN session_id = ""
    ELSE session_id = None

\* A response carried the header with an empty value first; the token comes
\* from a later response with status 500, to which the request failed; a
\* response with status 200 after that carried another value
C17_Witness ==
    /\ HeaderResponses # <<>>
    /\ HeaderResponses[1].session = ""
    /\ Len(TokenResponses) >= 2
    /\ TokenResponses[1].status = 500
    /\ TokenResponses[1].session = "s1"
    /\ TokenResponses[2].status = 200
    /\ TokenResponses[2].session = "s2"
    /\ session_id = "s1"

====
